---- MODULE Spec2Model ----
(***************************************************************************)
(* Model of the turn-based transition engine of viralsandbox.py            *)
(* (class ViralSimulation, specification Spec) and of the builder that     *)
(* assembles its blueprint from the selected genes (class VirusBuilder,    *)
(* specification BuilderSpec).                                             *)
(*                                                                         *)
(* Representation.                                                         *)
(*   - A Python dict is a function whose DOMAIN is the dict's key set.     *)
(*   - A Python list is a sequence.                                        *)
(*   - Interferon amounts and the interferon level are floats with two     *)
(*     decimals in the program; here they are integers counting            *)
(*     hundredths (5.0 is 500, the cap 100.0 is 10000).                    *)
(*   - Probabilities and degradation rates are floats in [0,1]; here they  *)
(*     are integers counting hundredths (1.0 is 100).  The effective       *)
(*     degradation rate is an integer counting millionths.  Decimal        *)
(*     values are exact here; where the program rounds a value that lies   *)
(*     exactly halfway in decimal, the binary float falls on either side,  *)
(*     so both neighbours are possible results.                            *)
(*   - random.random() returns a value in [0,1): a Bernoulli trial at      *)
(*     probability >= 1 always succeeds, one at probability <= 0 never     *)
(*     does, any other may go either way.  The number of successes of n    *)
(*     trials is therefore a nondeterministic choice.                      *)
(*   - process_turn is one atomic step.  Its local variables are kept in   *)
(*     the state as they are when the call ends, so that properties of     *)
(*     the turn's Change Records can be stated.  A call that ends with a   *)
(*     KeyError sets raised.                                               *)
(***************************************************************************)
EXTENDS Integers, Sequences, FiniteSets, TLC

VARIABLES
    virus_blueprint,            \* the blueprint handed to __init__
    db_manager,                 \* self.db_manager
    entities,                   \* self.entities
    transition_rules,           \* self.transition_rules
    degradation_rates,          \* self.degradation_rates
    turn_count,                 \* self.turn_count
    console_log,                \* self.console_log (one entry per logged turn)
    interferon_level,           \* self.interferon_level, in hundredths
    starting_entities,          \* process_turn local: the snapshot
    working_entities,           \* process_turn local: the working copy
    changes,                    \* process_turn local: all Change Records
    rule_states,                \* entity_state argument of each apply_rule_to_state call
    rule_changes,               \* rule_changes of each rule processed
    max_applications,           \* max_applications of each rule processed
    actual_applications,        \* actual_applications of each rule processed
    interferon_added,           \* interferon_added of each rule processed
    interferon_added_this_turn, \* process_turn local, in hundredths
    raised,                     \* the last process_turn ended with a KeyError
    final_degradation_rate,     \* final_degradation_rate of each entity degraded over
    entities_shared,            \* self.entities is the blueprint's own dict object
    engine2_entities,           \* self.entities of a second engine built from
                                \* the same blueprint and left idle
    gene_database,              \* the builder's gene_db: database["genes"]
    db_loaded,                  \* gene_db.db_manager is set
    game_state,                 \* VirusBuilder.game_state
    selected_genes,             \* VirusBuilder.selected_genes
    budget,                     \* VirusBuilder.budget
    spent,                      \* VirusBuilder.spent
    called,                     \* the last VirusBuilder method called, with its argument
    returned                    \* the value that call returned

engine_vars == << virus_blueprint, db_manager, entities, transition_rules,
                  degradation_rates, turn_count, console_log, interferon_level,
                  starting_entities, working_entities, changes, rule_states,
                  rule_changes, max_applications, actual_applications,
                  interferon_added, interferon_added_this_turn, raised,
                  final_degradation_rate, entities_shared, engine2_entities >>

builder_vars == << gene_database, db_loaded, game_state, selected_genes,
                   budget, spent, called, returned >>

vars == << virus_blueprint, db_manager, entities, transition_rules,
           degradation_rates, turn_count, console_log, interferon_level,
           starting_entities, working_entities, changes, rule_states,
           rule_changes, max_applications, actual_applications,
           interferon_added, interferon_added_this_turn, raised,
           final_degradation_rate, entities_shared, engine2_entities,
           gene_database, db_loaded, game_state, selected_genes,
           budget, spent, called, returned >>

-----------------------------------------------------------------------------
(* Bounds of the model *)

MaxStart == 3
MaxCount == 5
MaxTurns == 4

-----------------------------------------------------------------------------
(* Program constants *)

DefaultDegradationRate == 5
InterferonDecay == 100
InterferonCap == 10000
RateOne == 1000000
Budget == 200
BIG_BUDGET == 1000000
DefaultStartingCount == 10

-----------------------------------------------------------------------------
(* dict and list helpers *)

EmptyDict == << >>

\* Python's None, as a returned value
NoneValue == [none |-> TRUE]

\* no builder call has been made
NoCall == [op |-> "none"]

\* a builder without database, game state or selected gene
BuilderWithoutDatabase ==
    /\ gene_database = EmptyDict
    /\ db_loaded = FALSE
    /\ game_state = NoneValue
    /\ selected_genes = << >>
    /\ budget = Budget
    /\ spent = 0
    /\ called = NoCall
    /\ returned = NoneValue

\* dict.get(k, default)
Get(d, k, default) == IF k \in DOMAIN d THEN d[k] ELSE default

\* d[k] = v
Put(d, k, v) == [x \in (DOMAIN d) \cup {k} |-> IF x = k THEN v ELSE d[x]]

\* del d[k]
Del(d, k) == [x \in (DOMAIN d) \ {k} |-> d[x]]

Min2(a, b) == IF a <= b THEN a ELSE b
Max2(a, b) == IF a >= b THEN a ELSE b

\* min(vals) of a non-empty list
RECURSIVE MinOfSeq(_)
MinOfSeq(s) ==
    IF Len(s) = 1 THEN s[1] ELSE Min2(s[1], MinOfSeq(Tail(s)))

RECURSIVE Concat(_)
Concat(ss) == IF ss = << >> THEN << >> ELSE Head(ss) \o Concat(Tail(ss))

\* round(n / d): the nearest integer; a decimal tie is a float just above
\* or just below the half, so either neighbour can result
RoundDiv(n, d) ==
    LET q == n \div d
        r == n % d
    IN  IF 2 * r < d THEN {q}
        ELSE IF 2 * r > d THEN {q + 1}
        ELSE {q, q + 1}

\* mutant: the dict is not copied, the same object is used
DictNoCopy(d) == [items |-> d, same_object |-> TRUE]

\* dict.copy(): a new dict object with the same items
DictCopy(d) == [items |-> d, same_object |-> FALSE]

-----------------------------------------------------------------------------
(* The data the engine is built from *)

Entity == {"virion", "rna", "protein", "provirus"}

\* the order in which a population dict is iterated
EntityOrder == << "virion", "rna", "protein", "provirus" >>

In(e, n, c) == [entity |-> e, count |-> n, consumed |-> c]
Out(e, n) == [entity |-> e, count |-> n]

Rule(n, ins, outs, p, t, ifn) ==
    [name |-> n, inputs |-> ins, outputs |-> outs, probability |-> p,
     rule_type |-> t, interferon_amount |-> ifn]

\* consumes one virion, releases two RNA; always succeeds
Uncoat == Rule("uncoat", << In("virion", 1, TRUE) >>, << Out("rna", 2) >>,
               100, "per_entity", 0)

\* catalytic: RNA is required but not consumed; generates 40.0 interferon
Translate == Rule("translate", << In("rna", 1, FALSE) >>,
                  << Out("protein", 1) >>, 50, "per_entity", 4000)

\* two different consumed inputs, one of them with count 2
Assemble == Rule("assemble",
                 << In("rna", 1, TRUE), In("protein", 2, TRUE) >>,
                 << Out("virion", 1) >>, 50, "per_pair", 50)

\* competes with Uncoat for virions
Export == Rule("export", << In("virion", 1, TRUE) >>,
               << Out("protein", 1) >>, 50, "per_entity", 100)

\* the same entity in two inputs (the rule editor checks no uniqueness)
Dimerize == Rule("dimerize",
                 << In("virion", 1, TRUE), In("virion", 1, TRUE) >>,
                 << Out("protein", 1) >>, 50, "per_pair", 500)

\* consumes RNA, produces nothing, never succeeds
Silence == Rule("silence", << In("rna", 2, TRUE) >>, << >>,
                0, "per_entity", 0)

\* two outputs, one of them of class DNA; generates 0.5 interferon
Integrate == Rule("integrate", << In("virion", 1, TRUE) >>,
                  << Out("provirus", 1), Out("rna", 1) >>,
                  50, "per_entity", 50)

\* no input at all: a rule only a hand-edited database can hold
Spawn == Rule("spawn", << >>, << Out("virion", 1) >>, 50, "per_entity", 0)

\* the rule lists the engine is run with
RuleLists ==
    { << Uncoat, Translate, Assemble >>,
      << Export, Uncoat, Silence >>,
      << Dimerize, Export >>,
      << Uncoat, Silence >>,
      << Integrate >>,
      << Uncoat >>,
      << Spawn, Uncoat >>,
      << >> }

\* entity_degradation_rates tables, in hundredths; a missing key is allowed
RateTables ==
    { [e \in Entity |-> 0],
      [e \in {"virion", "protein"} |-> IF e = "virion" THEN 10 ELSE 100],
      [e \in Entity |-> 100] }

\* the entity metadata behind db_manager.get_entity
EntityClassTable ==
    [e \in Entity |->
        IF e = "virion" THEN "virion" ELSE IF e = "rna" THEN "RNA"
        ELSE IF e = "provirus" THEN "DNA" ELSE "protein"]

NoDatabase == [present |-> FALSE, entity_class |-> EmptyDict]
Database == [present |-> TRUE, entity_class |-> EntityClassTable]

Blueprints ==
    { [starting_entities |-> [e \in {"virion"} |-> n],
       transition_rules |-> rs,
       entity_degradation_rates |-> dr] :
        n \in 1..MaxStart, rs \in RuleLists, dr \in RateTables }

-----------------------------------------------------------------------------
(* Change Records *)

Change(t, e, n, r) == [type |-> t, entity |-> e, count |-> n, rule_name |-> r]

\* sum of the counts of the records of type t for entity e
RECURSIVE SumOf(_, _, _)
SumOf(recs, t, e) ==
    IF recs = << >> THEN 0
    ELSE (IF Head(recs).type = t /\ Head(recs).entity = e
          THEN Head(recs).count ELSE 0) + SumOf(Tail(recs), t, e)

\* the dict  entity -> summed count  built from the records of type t
Totals(recs, t) ==
    LET keys == {recs[i].entity :
                    i \in {j \in 1..Len(recs) : recs[j].type = t}}
    IN  [e \in keys |-> SumOf(recs, t, e)]

-----------------------------------------------------------------------------
(* Degradation *)

\* mutant: the multipliers are those of the comments next to the table
\* (1 %, 0.5 % and 0.2 % per interferon level)
InterferonMultiplierAsCommented(class) ==
    IF class = "rna" THEN 100
    ELSE IF class = "protein" THEN 50
    ELSE IF class = "dna" THEN 20
    ELSE 0

\* interferon_multipliers.get(entity_class, 0.0), in ten-thousandths
InterferonMultiplier(class) ==
    IF class = "rna" THEN 125
    ELSE IF class = "protein" THEN 75
    ELSE IF class = "dna" THEN 50
    ELSE 0

Lower(class) ==
    IF class = "RNA" THEN "rna" ELSE IF class = "DNA" THEN "dna" ELSE class

\* _calculate_interferon_degradation_bonus, in ten-thousandths: the
\* values round(bonus, 4) can take
InterferonDegradationBonus(level, db, entity_name) ==
    IF level <= 0 \/ ~db.present THEN {0}
    ELSE IF entity_name \notin DOMAIN db.entity_class THEN {0}
    ELSE RoundDiv(level * InterferonMultiplier(Lower(db.entity_class[entity_name])),
                  100)

\* mutant: a base rate of 0 is taken for a missing one
FinalDegradationRateZeroAsMissing(rates, level, db, entity_name) ==
    { Min2(RateOne,
           (IF Get(rates, entity_name, 0) = 0 THEN DefaultDegradationRate
            ELSE rates[entity_name]) * (10000 + bonus)) :
        bonus \in InterferonDegradationBonus(level, db, entity_name) }

\* final_degradation_rate of apply_degradation, in millionths: the values
\* it can take
FinalDegradationRate(rates, level, db, entity_name) ==
    { Min2(RateOne,
           Get(rates, entity_name, DefaultDegradationRate) * (10000 + bonus)) :
        bonus \in InterferonDegradationBonus(level, db, entity_name) }

\* the final_degradation_rate of every entity apply_degradation iterates
\* over: the possible assignments
FinalDegradationRates(entity_state, rates, level, db) ==
    LET present == {e \in DOMAIN entity_state : entity_state[e] > 0}
        all == UNION {FinalDegradationRate(rates, level, db, e) : e \in present}
    IN  { f \in [present -> all] :
            \A e \in present :
                f[e] \in FinalDegradationRate(rates, level, db, e) }

\* the values degraded_count can take for one entity
DegradedCounts(count, rate) ==
    IF count <= 0 \/ rate <= 0 THEN {0}
    ELSE IF rate >= RateOne THEN {count}
    ELSE 0..count

\* the loop of apply_degradation from entity i on, with the final rates
\* given: the possible lists of "degraded" records
RECURSIVE DegradationFrom(_, _, _)
DegradationFrom(i, entity_state, final_rates) ==
    IF i > Len(EntityOrder) THEN { << >> }
    ELSE LET e == EntityOrder[i]
             rest == DegradationFrom(i + 1, entity_state, final_rates)
         IN  IF e \notin DOMAIN entity_state THEN rest
             ELSE { (IF n > 0
                     THEN << Change("degraded", e, n, "Natural degradation") >>
                     ELSE << >>) \o r :
                       n \in DegradedCounts(entity_state[e],
                                            Get(final_rates, e, 0)),
                       r \in rest }

\* apply_degradation: the possible results, each with the rates it used
apply_degradation(entity_state, rates, level, db) ==
    UNION { { [changes |-> c, final_degradation_rate |-> f] :
                c \in DegradationFrom(1, entity_state, f) } :
              f \in FinalDegradationRates(entity_state, rates, level, db) }

\* mutant: the default is stored for a missing entity (setdefault)
DegradationRatesSetDefault(rates, entity_state) ==
    [e \in DOMAIN rates \cup {x \in DOMAIN entity_state : entity_state[x] > 0} |->
        Get(rates, e, DefaultDegradationRate)]

\* apply_degradation reads the table with .get(name, 0.05), which inserts
\* no key: the table after the call
DegradationRatesAfter(rates, entity_state) == rates

-----------------------------------------------------------------------------
(* One rule against a working state *)

\* float('inf') of get_max_applications_from_state
Infinity == -1

MinInf(a, b) == IF a = Infinity THEN b ELSE Min2(a, b)

\* the loop of get_max_applications_from_state from input i on
RECURSIVE MaxAppsFrom(_, _, _, _)
MaxAppsFrom(inputs, i, entity_state, max_apps) ==
    IF i > Len(inputs)
    THEN (IF max_apps # Infinity THEN max_apps ELSE 0)
    ELSE LET required_count == inputs[i].count
             available == Get(entity_state, inputs[i].entity, 0)
         IN  IF available < required_count THEN 0
             ELSE MaxAppsFrom(inputs, i + 1, entity_state,
                              MinInf(max_apps, available \div required_count))

\* mutant: returns after the first input instead of taking the minimum
get_max_applications_first_input(rule, entity_state) ==
    MaxAppsFrom(SubSeq(rule.inputs, 1, Min2(1, Len(rule.inputs))), 1,
                entity_state, Infinity)

\* mutant: a rule no input bounds can be applied once
get_max_applications_unbounded_once(rule, entity_state) ==
    IF rule.inputs = << >> THEN 1
    ELSE MaxAppsFrom(rule.inputs, 1, entity_state, Infinity)

get_max_applications_from_state(rule, entity_state) ==
    MaxAppsFrom(rule.inputs, 1, entity_state, Infinity)

\* the values actual_applications can take: the successes of
\* max_apps independent trials at rule.probability
\* mutant: a draw can fail against probability 1.0
SuccessesDrawCanFail(trials, probability) ==
    { n \in 0..trials : probability <= 0 => n = 0 }

\* the number of draws below the probability, out of the given number
Successes(trials, probability) ==
    { n \in 0..trials :
        /\ probability >= 100 => n = trials
        /\ probability <= 0 => n = 0 }

\* mutant: a per_pair rule draws once for every two possible applications
ActualApplicationsPerPairHalved(rule, max_apps) ==
    IF rule.rule_type = "per_entity"
    THEN Successes(max_apps, rule.probability)
    ELSE IF rule.rule_type = "per_pair"
    THEN Successes(max_apps \div 2, rule.probability)
    ELSE {0}

ActualApplications(rule, max_apps) ==
    IF rule.rule_type = "per_entity"
    THEN Successes(max_apps, rule.probability)
    ELSE IF rule.rule_type = "per_pair"
    THEN Successes(max_apps, rule.probability)
    ELSE {0}

\* mutant: a record is emitted for every input, whatever its consumed flag
ConsumedRecordsEveryInput(rule, actual) ==
    [i \in 1..Len(rule.inputs) |->
        Change("consumed", rule.inputs[i].entity,
               actual * rule.inputs[i].count, rule.name)]

\* the "consumed" records of one rule, in input order
ConsumedRecords(rule, actual) ==
    LET idx == {i \in 1..Len(rule.inputs) : rule.inputs[i].consumed}
        F[i \in 0..Len(rule.inputs)] ==
            IF i = 0 THEN << >>
            ELSE IF i \in idx
                 THEN Append(F[i - 1],
                             Change("consumed", rule.inputs[i].entity,
                                    actual * rule.inputs[i].count, rule.name))
                 ELSE F[i - 1]
    IN  F[Len(rule.inputs)]

\* the "produced" records of one rule, in output order
ProducedRecords(rule, actual) ==
    [i \in 1..Len(rule.outputs) |->
        Change("produced", rule.outputs[i].entity,
               actual * rule.outputs[i].count, rule.name)]

\* apply_rule_to_state: the possible outcomes, each with the Change Records
\* it returns
apply_rule_to_state(rule, entity_state) ==
    LET max_apps == get_max_applications_from_state(rule, entity_state)
    IN  IF max_apps = 0
        THEN { [max_applications |-> 0, actual_applications |-> 0,
                changes |-> << >>] }
        ELSE { [max_applications |-> max_apps, actual_applications |-> n,
                changes |-> IF n = 0 THEN << >>
                            ELSE ConsumedRecords(rule, n)
                                   \o ProducedRecords(rule, n)] :
                 n \in ActualApplications(rule, max_apps) }

-----------------------------------------------------------------------------
(* Interferon generated by one rule *)

\* min over a non-empty list of inputs/outputs of  counts[entity] // per_app
ObservedApplications(specs, counts) ==
    MinOfSeq([i \in 1..Len(specs) |->
                Get(counts, specs[i].entity, 0) \div Max2(1, specs[i].count)])

SelectConsumed(inputs) == SelectSeq(inputs, LAMBDA i : i.consumed)

\* _estimate_applications_from_changes (None and 0 are both falsy, so
\* apps_from_consumed = None is 0 here)
estimate_applications_from_changes(rule, rule_chgs) ==
    LET consumed_counts == Totals(rule_chgs, "consumed")
        consumed_inputs == SelectConsumed(rule.inputs)
        apps_from_consumed ==
            IF rule.inputs # << >> /\ consumed_inputs # << >>
               /\ DOMAIN consumed_counts # {}
            THEN ObservedApplications(consumed_inputs, consumed_counts)
            ELSE 0
        produced_counts == Totals(rule_chgs, "produced")
    IN  IF apps_from_consumed # 0 THEN apps_from_consumed
        ELSE IF rule.outputs # << >> /\ DOMAIN produced_counts # {}
             THEN ObservedApplications(rule.outputs, produced_counts)
             ELSE 0

\* _process_rule_interferon_effects, in hundredths
process_rule_interferon_effects(rule, rule_chgs) ==
    IF rule.interferon_amount <= 0 THEN 0
    ELSE estimate_applications_from_changes(rule, rule_chgs)
           * rule.interferon_amount

-----------------------------------------------------------------------------
(* The working copy *)

\* for each record of type t in turn:  state[entity] -= count, and the key
\* is deleted when the result is <= 0.  A record whose entity is not a key
\* raises KeyError and ends the loop.
RECURSIVE SubtractRecords(_, _, _)
SubtractRecords(state, recs, t) ==
    IF recs = << >> THEN [entities |-> state, raised |-> FALSE]
    ELSE LET change == Head(recs)
         IN  IF change.type # t THEN SubtractRecords(state, Tail(recs), t)
             ELSE IF change.entity \notin DOMAIN state
                  THEN [entities |-> state, raised |-> TRUE]
             ELSE LET left == state[change.entity] - change.count
                  IN  SubtractRecords(
                        IF left <= 0 THEN Del(state, change.entity)
                        ELSE Put(state, change.entity, left),
                        Tail(recs), t)

\* mutant: the degradation records are not applied to the working copy
DegradeWorkingSkipped(state, degradation_changes) ==
    [entities |-> state, raised |-> FALSE]

\* process_turn: the working state after the degradation records
DegradeWorking(state, degradation_changes) ==
    SubtractRecords(state, degradation_changes, "degraded")

\* mutant: the produced counts are added to the working copy as well
UpdateWorkingWithProduced(state, rule_chgs) ==
    LET sub == SubtractRecords(state, rule_chgs, "consumed")
        produced == Totals(rule_chgs, "produced")
    IN  [entities |-> [e \in (DOMAIN sub.entities) \cup (DOMAIN produced) |->
                          Get(sub.entities, e, 0) + Get(produced, e, 0)],
         raised |-> sub.raised]

\* mutant: the working copy is not updated between rules
UpdateWorkingSkipped(state, rule_chgs) ==
    [entities |-> state, raised |-> FALSE]

\* process_turn: the working state after one rule's records
UpdateWorking(state, rule_chgs) ==
    SubtractRecords(state, rule_chgs, "consumed")

-----------------------------------------------------------------------------
(* The transition pass *)

\* one iteration of the loop over self.transition_rules, for one outcome
\* of apply_rule_to_state
RuleStep(rule, st, res) ==
    LET added == process_rule_interferon_effects(rule, res.changes)
        upd == UpdateWorking(st.working, res.changes)
    IN  [working |-> upd.entities,
         changes |-> st.changes \o res.changes,
         rule_states |-> Append(st.rule_states, st.working),
         rule_changes |-> Append(st.rule_changes, res.changes),
         max_applications |-> Append(st.max_applications, res.max_applications),
         actual_applications |->
             Append(st.actual_applications, res.actual_applications),
         interferon_added |-> Append(st.interferon_added, added),
         total |-> IF added > 0 THEN st.total + added ELSE st.total,
         raised |-> upd.raised]

\* the loop over self.transition_rules from rule i on: the possible results
RECURSIVE TransitionPass(_, _, _)
TransitionPass(rules, i, st) ==
    IF i > Len(rules) \/ st.raised THEN {st}
    ELSE UNION { TransitionPass(rules, i + 1, RuleStep(rules[i], st, res)) :
                   res \in apply_rule_to_state(rules[i], st.working) }

-----------------------------------------------------------------------------
(* Feedback update and commit *)

\* mutant: the cap is missing
FeedbackUpdateUncapped(level, added) ==
    LET decayed == Max2(0, level - InterferonDecay)
    IN  IF added > 0 THEN decayed + added ELSE decayed

\* mutant: this turn's generation is added before the decay
FeedbackUpdateDecayLast(level, added) ==
    Max2(0, (IF added > 0 THEN Min2(InterferonCap, level + added) ELSE level)
              - InterferonDecay)

\* process_turn: decay, then this turn's generation, capped
FeedbackUpdate(level, added) ==
    LET decayed == Max2(0, level - InterferonDecay)
    IN  IF added > 0 THEN Min2(InterferonCap, decayed + added) ELSE decayed

\* mutant: a key is deleted only when its count becomes negative
SubtractTotalsKeepZero(ents, totals) ==
    LET gone == {e \in DOMAIN ents \cap DOMAIN totals :
                    ents[e] - totals[e] < 0}
    IN  [e \in (DOMAIN ents) \ gone |->
            IF e \in DOMAIN totals THEN ents[e] - totals[e] ELSE ents[e]]

\* apply_all_changes: subtract the totals from the keys that are present,
\* deleting a key whose count becomes <= 0
SubtractTotals(ents, totals) ==
    LET gone == {e \in DOMAIN ents \cap DOMAIN totals :
                    ents[e] - totals[e] <= 0}
    IN  [e \in (DOMAIN ents) \ gone |->
            IF e \in DOMAIN totals THEN ents[e] - totals[e] ELSE ents[e]]

\* apply_all_changes: add the totals, creating missing keys
AddTotals(ents, totals) ==
    [e \in (DOMAIN ents) \cup (DOMAIN totals) |->
        Get(ents, e, 0) + Get(totals, e, 0)]

apply_all_changes(ents, chgs) ==
    AddTotals(
        SubtractTotals(
            SubtractTotals(ents, Totals(chgs, "degraded")),
            Totals(chgs, "consumed")),
        Totals(chgs, "produced"))

\* mutant: the simulation is over once the starter entity is gone
is_simulation_over_without_starter ==
    DOMAIN entities \cap DOMAIN virus_blueprint.starting_entities = {}

is_simulation_over == DOMAIN entities = {}

-----------------------------------------------------------------------------
(* The engine *)

\* ViralSimulation.__init__, followed by the assignment of db_manager
Init ==
    /\ virus_blueprint \in Blueprints
    /\ db_manager \in {NoDatabase, Database}
    /\ entities = DictCopy(virus_blueprint.starting_entities).items
    /\ entities_shared = DictCopy(virus_blueprint.starting_entities).same_object
    /\ engine2_entities = DictCopy(virus_blueprint.starting_entities).items
    /\ final_degradation_rate = EmptyDict
    /\ transition_rules = virus_blueprint.transition_rules
    /\ degradation_rates = virus_blueprint.entity_degradation_rates
    /\ turn_count = 0
    /\ console_log = << >>
    /\ interferon_level = 0
    /\ starting_entities = EmptyDict
    /\ working_entities = EmptyDict
    /\ changes = << >>
    /\ rule_states = << >>
    /\ rule_changes = << >>
    /\ max_applications = << >>
    /\ actual_applications = << >>
    /\ interferon_added = << >>
    /\ interferon_added_this_turn = 0
    /\ raised = FALSE
    /\ BuilderWithoutDatabase

\* the results process_turn can reach before the feedback update
TurnResults ==
    UNION { LET degradation_changes == degradation.changes
                deg == DegradeWorking(entities, degradation_changes)
            IN  { st @@ [final_degradation_rate |->
                             degradation.final_degradation_rate] :
                    st \in TransitionPass(transition_rules, 1,
                            [working |-> deg.entities,
                             changes |-> degradation_changes,
                             rule_states |-> << >>,
                             rule_changes |-> << >>,
                             max_applications |-> << >>,
                             actual_applications |-> << >>,
                             interferon_added |-> << >>,
                             total |-> 0,
                             raised |-> deg.raised]) } :
              degradation \in
                  apply_degradation(entities, degradation_rates,
                                    interferon_level, db_manager) }

WithinBounds(ents) == \A e \in DOMAIN ents : ents[e] <= MaxCount

process_turn ==
    /\ turn_count < MaxTurns
    /\ \E st \in TurnResults :
        /\ turn_count' = turn_count + 1
        /\ starting_entities' = entities
        /\ working_entities' = st.working
        /\ changes' = st.changes
        /\ rule_states' = st.rule_states
        /\ rule_changes' = st.rule_changes
        /\ max_applications' = st.max_applications
        /\ actual_applications' = st.actual_applications
        /\ interferon_added' = st.interferon_added
        /\ interferon_added_this_turn' = st.total
        /\ raised' = st.raised
        /\ final_degradation_rate' = st.final_degradation_rate
        /\ IF st.raised
           THEN UNCHANGED << interferon_level, entities, console_log >>
           ELSE /\ interferon_level' = FeedbackUpdate(interferon_level, st.total)
                /\ entities' = apply_all_changes(entities, st.changes)
                /\ WithinBounds(entities')
                /\ console_log' = Append(console_log, turn_count + 1)
    \* the rule list and the rate table are the blueprint's own objects;
    \* the population is the blueprint's dict only if it was not copied
    /\ degradation_rates' = DegradationRatesAfter(degradation_rates, entities)
    /\ virus_blueprint' =
          [virus_blueprint EXCEPT
              !.entity_degradation_rates = degradation_rates',
              !.starting_entities = IF entities_shared THEN entities' ELSE @]
    /\ engine2_entities' =
          IF entities_shared THEN entities' ELSE engine2_entities
    /\ UNCHANGED << db_manager, transition_rules, entities_shared >>
    /\ UNCHANGED builder_vars

Next == process_turn

Spec == Init /\ [][Next]_vars

-----------------------------------------------------------------------------
(* Quantities the properties are stated with.  A property about what a     *)
(* turn does is stated of a turn that returned (turn_count > 0 and not     *)
(* raised): its locals are then those of the completed call.               *)

TurnReturned == turn_count > 0 /\ ~raised

Processed == 1..Len(max_applications)

Degraded(e) == SumOf(changes, "degraded", e)
Consumed(e) == SumOf(changes, "consumed", e)
Produced(e) == SumOf(changes, "produced", e)

\* the count of e before the turn (absence is 0)
Before(e) == Get(starting_entities, e, 0)

\* the count of e left after this turn's degradation
PostDegradation(e) == Before(e) - Degraded(e)

\* what the rules before rule j consumed of e, by their Change Records
ConsumedBefore(j, e) ==
    SumOf(Concat(SubSeq(rule_changes, 1, j - 1)), "consumed", e)

\* the smallest of  floor(available / requiredCount)  over the inputs
MinFloor(rule, avail) ==
    LET floors == { Get(avail, rule.inputs[k].entity, 0)
                      \div rule.inputs[k].count :
                        k \in 1..Len(rule.inputs) }
    IN  CHOOSE m \in floors : \A f \in floors : m <= f

Unsatisfied(rule, avail) ==
    \E k \in 1..Len(rule.inputs) :
        Get(avail, rule.inputs[k].entity, 0) < rule.inputs[k].count

-----------------------------------------------------------------------------
(* C1 *)

\* C1: every entry of the population mapping has a strictly positive
\* count, at construction and after every process_turn: no negative count
\* and no explicit zero is ever stored.
C1_PopulationPositive ==
    \A e \in DOMAIN entities : entities[e] > 0

\* a turn after which an entity that was present has been removed
C1_Witness ==
    /\ TurnReturned
    /\ \E e \in DOMAIN starting_entities :
          /\ e \notin DOMAIN entities
          /\ Degraded(e) + Consumed(e) >= starting_entities[e]

-----------------------------------------------------------------------------
(* C2 *)

\* C2: within one process_turn, for every entity, the sum of the counts of
\* all its "consumed" Change Records does not exceed its post-degradation
\* available count (pre-turn count minus the count degraded this turn).
C2_ConsumedWithinAvailable ==
    TurnReturned =>
        \A e \in Entity : Consumed(e) <= PostDegradation(e)

-----------------------------------------------------------------------------
(* C3 *)

\* C3: for every rule and working state, the number of applications is at
\* most maxApplications, maxApplications is the minimum over the inputs of
\* floor(available / requiredCount), and a rule with an input whose
\* available count is below the required count has 0 applications and
\* emits no Change Record.
C3_RuleFiringBound ==
    \A i \in Processed :
        LET rule == transition_rules[i]
        IN  rule.inputs # << >> =>
              /\ max_applications[i] = MinFloor(rule, rule_states[i])
              /\ actual_applications[i] >= 0
              /\ actual_applications[i] <= max_applications[i]
              /\ Unsatisfied(rule, rule_states[i]) =>
                    /\ max_applications[i] = 0
                    /\ actual_applications[i] = 0
                    /\ rule_changes[i] = << >>

\* a rule with two inputs whose floors differ fired less often than it
\* could, and another rule had an unsatisfied input
C3_Witness ==
    /\ \E i \in Processed :
          LET rule == transition_rules[i]
          IN  /\ Len(rule.inputs) >= 2
              /\ \E k \in 1..Len(rule.inputs) :
                    Get(rule_states[i], rule.inputs[k].entity, 0)
                      \div rule.inputs[k].count > max_applications[i]
              /\ max_applications[i] >= 1
              /\ actual_applications[i] < max_applications[i]
    /\ \E i \in Processed :
          /\ Unsatisfied(transition_rules[i], rule_states[i])
          /\ rule_changes[i] = << >>

-----------------------------------------------------------------------------
(* C4 *)

\* C4: in every reachable state the feedback scalar lies between 0 and 100.
C4_FeedbackBounds ==
    /\ interferon_level >= 0
    /\ interferon_level <= InterferonCap

\* a turn whose generation alone exceeds the cap ends at the cap
C4_Witness ==
    /\ TurnReturned
    /\ interferon_added_this_turn > InterferonCap
    /\ interferon_level = InterferonCap

-----------------------------------------------------------------------------
(* C5 *)

\* C5: each process_turn sets the feedback scalar to
\* min(100, max(0, previous - 1.0) + G), G being the interferon generated
\* this turn; a turn that generates nothing (as when every rule has
\* interferon_amount 0) lowers the scalar by 1.0, floored at 0, and leaves
\* a scalar of 0 at 0.
C5_FeedbackUpdate ==
    [][ (turn_count' = turn_count + 1 /\ ~raised') =>
          /\ interferon_level' =
                Min2(InterferonCap,
                     Max2(0, interferon_level - InterferonDecay)
                       + interferon_added_this_turn')
          /\ (\A i \in 1..Len(transition_rules) :
                 transition_rules[i].interferon_amount = 0)
                => interferon_added_this_turn' = 0
          /\ interferon_added_this_turn' = 0 =>
                /\ interferon_level >= InterferonDecay =>
                      interferon_level' = interferon_level - InterferonDecay
                /\ interferon_level < InterferonDecay =>
                      interferon_level' = 0
      ]_vars

\* a turn that generated interferon on top of a decayed earlier level
C5_Witness ==
    /\ TurnReturned
    /\ interferon_added_this_turn > 0
    /\ interferon_level > interferon_added_this_turn
    /\ interferon_level < InterferonCap

-----------------------------------------------------------------------------
(* C6 *)

\* C6: for every rule with a positive interferon_amount, the interferon the
\* rule contributes to the turn's total equals its number of successful
\* applications times interferon_amount.
C6_InterferonPerApplication ==
    TurnReturned =>
        \A i \in Processed :
            transition_rules[i].interferon_amount > 0 =>
                interferon_added[i] =
                    actual_applications[i]
                      * transition_rules[i].interferon_amount

-----------------------------------------------------------------------------
(* C7 *)

\* C7: process_turn commits every Change Record exactly once: for every
\* entity, count after = count before - degraded - consumed + produced
\* (absence meaning 0).
C7_CommitExactlyOnce ==
    TurnReturned =>
        \A e \in Entity :
            Get(entities, e, 0) =
                Before(e) - Degraded(e) - Consumed(e) + Produced(e)

-----------------------------------------------------------------------------
(* C8 *)

\* C8: degraded individuals take no part in the turn's transitions: every
\* rule's maxApplications is computed from counts that exclude this turn's
\* degraded individuals, so for each entity degraded + consumed in one turn
\* never exceeds its pre-turn count.
C8_DegradedDoNotParticipate ==
    TurnReturned =>
        /\ \A i \in Processed :
              transition_rules[i].inputs # << >> =>
                max_applications[i] <=
                    MinFloor(transition_rules[i],
                             [e \in Entity |-> PostDegradation(e)])
        /\ \A e \in Entity : Degraded(e) + Consumed(e) <= Before(e)

-----------------------------------------------------------------------------
(* C9 *)

\* C9: entities produced by a rule during a turn are not available as
\* inputs to any rule in that same turn: what a rule can use of an entity
\* is bounded by the entity's count before the turn, whatever was produced
\* earlier in the pass.
C9_ProducedNotAvailableSameTurn ==
    \A j \in Processed :
        \A k \in 1..Len(transition_rules[j].inputs) :
            LET inp == transition_rules[j].inputs[k]
            IN  /\ Get(rule_states[j], inp.entity, 0) <= Before(inp.entity)
                /\ max_applications[j] * inp.count <= Before(inp.entity)

\* an earlier rule produced an entity that a later rule requires, and the
\* later rule could not fire on it in that turn
C9_Witness ==
    /\ TurnReturned
    /\ \E j \in Processed : \E i \in 1..(j - 1) :
          \E k \in 1..Len(transition_rules[j].inputs) :
              LET e == transition_rules[j].inputs[k].entity
              IN  /\ SumOf(rule_changes[i], "produced", e) > 0
                  /\ e \notin DOMAIN starting_entities
                  /\ max_applications[j] = 0

-----------------------------------------------------------------------------
(* C10 *)

\* the count of e the working copy holds when rule j is reached, by the
\* Change Records: post-degradation count minus what earlier rules consumed
LeftFor(j) ==
    [e \in Entity |-> Max2(0, PostDegradation(e) - ConsumedBefore(j, e))]

\* C10: rules are applied in list order against one shared working copy:
\* a rule's maxApplications is computed from the counts left after the
\* consumption of the rules before it has been subtracted.
C10_EarlierRuleHasPriority ==
    \A j \in Processed :
        /\ \A e \in Entity : Get(rule_states[j], e, 0) = LeftFor(j)[e]
        /\ transition_rules[j].inputs # << >> =>
              max_applications[j] = MinFloor(transition_rules[j], LeftFor(j))

\* two rules consume the same entity and the earlier one's consumption
\* lowered what the later one could use
C10_Witness ==
    /\ TurnReturned
    /\ \E j \in Processed : \E i \in 1..(j - 1) :
          \E k \in 1..Len(transition_rules[j].inputs) :
              LET inp == transition_rules[j].inputs[k]
              IN  /\ inp.consumed
                  /\ SumOf(rule_changes[i], "consumed", inp.entity) > 0
                  /\ max_applications[j] >= 1
                  /\ max_applications[j] <
                        PostDegradation(inp.entity) \div inp.count

-----------------------------------------------------------------------------
(* C11 *)

\* the working copy as rule i left it: the state the next rule was given,
\* or the final working copy for the last rule processed
WorkingAfter(i) ==
    IF i < Len(rule_states) THEN rule_states[i + 1] ELSE working_entities

\* the entities a rule requires without consuming them through any input
RequiredOnly(rule) ==
    { rule.inputs[k].entity : k \in 1..Len(rule.inputs) }
      \ { rule.inputs[k].entity :
            k \in {n \in 1..Len(rule.inputs) : rule.inputs[n].consumed} }

\* C11: an input with consumed = false bounds maxApplications like any
\* other input, but the rule emits no "consumed" Change Record for its
\* entity and leaves that entity's count in the working copy unchanged, so
\* the rules after it see the same count.
C11_NonConsumedInputKept ==
    \A i \in Processed :
        LET rule == transition_rules[i]
        IN  /\ \A k \in 1..Len(rule.inputs) :
                  ~rule.inputs[k].consumed =>
                      max_applications[i] * rule.inputs[k].count
                          <= Get(rule_states[i], rule.inputs[k].entity, 0)
            /\ \A e \in RequiredOnly(rule) :
                  /\ SumOf(rule_changes[i], "consumed", e) = 0
                  /\ Get(WorkingAfter(i), e, 0) = Get(rule_states[i], e, 0)

\* a rule fired on an input it does not consume, and a later rule of the
\* same turn could fire on the same, undiminished count
C11_Witness ==
    /\ TurnReturned
    /\ \E j \in Processed : \E i \in 1..(j - 1) :
          \E e \in RequiredOnly(transition_rules[i]) :
              /\ actual_applications[i] >= 1
              /\ \E k \in 1..Len(transition_rules[j].inputs) :
                    transition_rules[j].inputs[k].entity = e
              /\ max_applications[j] >= 1
              /\ rule_states[j][e] = rule_states[i][e]

-----------------------------------------------------------------------------
(* C12 *)

\* the blueprint has no rule and its starter entity has degradation rate 0
NoRuleNoDegradation ==
    /\ transition_rules = << >>
    /\ \A e \in DOMAIN virus_blueprint.starting_entities :
          Get(degradation_rates, e, DefaultDegradationRate) = 0

\* C12: with an empty rule list and degradation rate 0 for the starter
\* entity, every process_turn call increases the turn counter by exactly 1
\* and returns, and the population after any number of calls equals the
\* starting population; the turn counter equals the number of calls.
C12_IdleBlueprintIsStable ==
    /\ [](NoRuleNoDegradation =>
            /\ entities = virus_blueprint.starting_entities
            /\ ~raised
            /\ turn_count = Len(console_log))
    /\ [][NoRuleNoDegradation =>
            /\ turn_count' = turn_count + 1
            /\ entities' = entities
            /\ Len(console_log') = Len(console_log) + 1]_vars

\* several turns of a blueprint without rules and without degradation
C12_Witness ==
    /\ NoRuleNoDegradation
    /\ turn_count = MaxTurns
    /\ Len(console_log) = MaxTurns
    /\ changes = << >>
    /\ entities = virus_blueprint.starting_entities

-----------------------------------------------------------------------------
(* C13 *)

\* every entity of the population ents has degradation rate 1.0
AllRatesOne(ents) ==
    \A e \in DOMAIN ents :
        Get(degradation_rates, e, DefaultDegradationRate) = 100

\* no rule processed in the last turn fired
NoRuleFired ==
    \A i \in Processed :
        actual_applications[i] = 0 /\ rule_changes[i] = << >>

\* C13: if every entity present has degradation rate 1.0 then, whatever
\* the feedback scalar and the random draws, one process_turn degrades
\* every individual, no rule fires in that turn, and the population is
\* empty after that turn.
C13_FullDegradationEmptiesPopulation ==
    [][AllRatesOne(entities) =>
          /\ ~raised'
          /\ \A e \in DOMAIN entities :
                SumOf(changes', "degraded", e) = entities[e]
          /\ NoRuleFired'
          /\ Len(max_applications') = Len(transition_rules)
          /\ entities' = EmptyDict]_vars

\* a turn that started with a positive feedback scalar and a population
\* of rate 1.0 only, and a rule list that is not empty
C13_Witness ==
    /\ TurnReturned
    /\ starting_entities # EmptyDict
    /\ AllRatesOne(starting_entities)
    /\ \A e \in DOMAIN starting_entities : Degraded(e) = starting_entities[e]
    /\ transition_rules # << >>
    /\ NoRuleFired
    /\ interferon_level > 0
    /\ entities = EmptyDict

-----------------------------------------------------------------------------
(* C14 *)

\* zero degradation, and one rule that consumes 1 virion and produces 2 rna
\* with probability 1.0
UncoatOnly ==
    /\ transition_rules = << Uncoat >>
    /\ \A e \in Entity :
          Get(degradation_rates, e, DefaultDegradationRate) = 0

\* C14: a rule with probability 1.0 fires exactly maxApplications times in
\* every turn, whatever the random draws; with zero degradation and the
\* single rule  1 virion -> 2 rna  a population of n virions becomes
\* exactly 2n rna in one turn.
C14_CertainRuleFiresMaxTimes ==
    /\ [](\A i \in Processed :
             transition_rules[i].probability >= 100 =>
                 actual_applications[i] = max_applications[i])
    /\ [][(UncoatOnly /\ DOMAIN entities = {"virion"}) =>
             /\ ~raised'
             /\ actual_applications' = << entities["virion"] >>
             /\ entities' = [e \in {"rna"} |-> 2 * entities["virion"]]]_vars

\* the virions of the example were all converted in one turn
C14_Witness ==
    /\ TurnReturned
    /\ UncoatOnly
    /\ turn_count = 1
    /\ starting_entities = [e \in {"virion"} |-> 2]
    /\ actual_applications = << 2 >>
    /\ entities = [e \in {"rna"} |-> 4]

-----------------------------------------------------------------------------
(* C15 *)

\* baseRate of an entity, in hundredths
BaseRate(e) == Get(degradation_rates, e, DefaultDegradationRate)

\* the sensitivity m of an entity's class, in ten-thousandths; the class
\* is the one the engine's database gives, an entity without one has none
ClassSensitivity(e) ==
    LET class == IF db_manager.present /\ e \in DOMAIN db_manager.entity_class
                 THEN db_manager.entity_class[e] ELSE "none"
    IN  IF class \in {"RNA", "rna"} THEN 125
        ELSE IF class \in {"protein", "Protein"} THEN 75
        ELSE IF class \in {"DNA", "dna"} THEN 50
        ELSE 0

RoundedBonus(e) ==
    LET exact == interferon_level * ClassSensitivity(e)
        q == exact \div 100
    IN  { b \in {q, q + 1} : 100 * b - exact <= 50 /\ exact - 100 * b <= 50 }

-----------------------------------------------------------------------------
(* C16 *)

\* C16: is_simulation_over is true exactly when the population mapping is
\* empty, that is when no entity has an individual left, and the engine
\* never stops itself: process_turn has an outcome in every state, and
\* after extinction it can still be called, increments the turn counter
\* and returns a log.
C16_OverIffEmptyAndStillCallable ==
    /\ [](/\ is_simulation_over <=> entities = EmptyDict
          /\ is_simulation_over <=> \A e \in Entity : Get(entities, e, 0) = 0
          /\ TurnResults # {}
          /\ (entities = EmptyDict /\ turn_count < MaxTurns) =>
                ENABLED process_turn)
    /\ [][entities = EmptyDict =>
             /\ turn_count' = turn_count + 1
             /\ ~raised'
             /\ console_log' = Append(console_log, turn_count')
             /\ entities' = EmptyDict]_vars

\* turns were processed and returned after the population had gone extinct
C16_Witness ==
    /\ TurnReturned
    /\ is_simulation_over
    /\ starting_entities = EmptyDict
    /\ transition_rules # << >>
    /\ turn_count >= 2
    /\ Len(console_log) = turn_count

-----------------------------------------------------------------------------
(* C17 *)

\* C17: a newly constructed engine has the blueprint's starting_entities
\* as population, turn counter 0, feedback scalar 0.0 and an empty running
\* log, and its population is a private copy: no process_turn changes the
\* blueprint's starting_entities mapping nor the population of another
\* engine built from the same blueprint.
C17_NewEngineOwnsItsPopulation ==
    /\ [](turn_count = 0 =>
            /\ entities = virus_blueprint.starting_entities
            /\ engine2_entities = virus_blueprint.starting_entities
            /\ interferon_level = 0
            /\ console_log = << >>)
    /\ [][/\ virus_blueprint'.starting_entities =
                virus_blueprint.starting_entities
          /\ engine2_entities' = engine2_entities]_vars

\* the engine's population has changed while the blueprint's mapping and
\* the other engine's population are as they were
C17_Witness ==
    /\ TurnReturned
    /\ changes # << >>
    /\ entities # virus_blueprint.starting_entities
    /\ engine2_entities = virus_blueprint.starting_entities
    /\ \E n \in 1..MaxStart :
          virus_blueprint.starting_entities = [e \in {"virion"} |-> n]

-----------------------------------------------------------------------------
(* C18 *)

\* every rule has at least one input and only positive input counts
WellFormedRules ==
    \A i \in 1..Len(transition_rules) :
        /\ transition_rules[i].inputs # << >>
        /\ \A k \in 1..Len(transition_rules[i].inputs) :
              transition_rules[i].inputs[k].count > 0

\* C18: for a blueprint whose rules have non-empty inputs and positive
\* counts, process_turn runs to completion from every reachable state: it
\* raises no error, and it does not leave a partially updated state (the
\* turn counter advanced, but no commit and no log).
C18_TurnRunsToCompletion ==
    [][WellFormedRules =>
          /\ ~raised'
          /\ turn_count' = turn_count + 1
          /\ Len(console_log') = Len(console_log) + 1]_vars

-----------------------------------------------------------------------------
(* C19 *)

\* the rule that differs from the given one in rule_type only
OtherRuleType(rule) ==
    [rule EXCEPT !.rule_type =
        IF @ = "per_entity" THEN "per_pair" ELSE "per_entity"]

\* C19: rule_type is purely informational: in every working state a rule
\* is applied to, the rule that differs only in rule_type (per_entity vs
\* per_pair) has the same maxApplications and the same set of possible
\* outcomes (application counts and Change Records), which includes the
\* outcome that happened.
C19_RuleTypeIsInformational ==
    \A i \in Processed :
        LET rule == transition_rules[i]
            other == OtherRuleType(rule)
        IN  /\ rule.rule_type \in {"per_entity", "per_pair"}
            /\ other.rule_type # rule.rule_type
            /\ get_max_applications_from_state(other, rule_states[i])
                  = max_applications[i]
            /\ apply_rule_to_state(other, rule_states[i])
                  = apply_rule_to_state(rule, rule_states[i])
            /\ [max_applications |-> max_applications[i],
                actual_applications |-> actual_applications[i],
                changes |-> rule_changes[i]]
                  \in apply_rule_to_state(other, rule_states[i])

\* a per_entity rule and a per_pair rule both fired in one turn, the
\* per_pair rule with several possible applications
C19_Witness ==
    /\ TurnReturned
    /\ \E i \in Processed :
          /\ transition_rules[i].rule_type = "per_entity"
          /\ actual_applications[i] >= 1
    /\ \E i \in Processed :
          /\ transition_rules[i].rule_type = "per_pair"
          /\ max_applications[i] >= 2
          /\ actual_applications[i] >= 1

-----------------------------------------------------------------------------
(* C20 *)

\* C20: process_turn never modifies the blueprint's transition rules nor
\* the degradation-rate table: both, the engine's and the blueprint's, are
\* the same before and after every turn, hence after any sequence of turns.
C20_RulesAndRatesUnchanged ==
    /\ [](/\ transition_rules = virus_blueprint.transition_rules
          /\ degradation_rates = virus_blueprint.entity_degradation_rates
          /\ virus_blueprint.transition_rules \in RuleLists
          /\ virus_blueprint.entity_degradation_rates \in RateTables)
    /\ [][/\ transition_rules' = transition_rules
          /\ degradation_rates' = degradation_rates
          /\ virus_blueprint'.transition_rules =
                virus_blueprint.transition_rules
          /\ virus_blueprint'.entity_degradation_rates =
                virus_blueprint.entity_degradation_rates]_vars

\* a turn in which a rule fired and an entity missing from the rate table
\* was degraded at the default rate
C20_Witness ==
    /\ TurnReturned
    /\ \E i \in Processed : actual_applications[i] >= 1
    /\ \E e \in DOMAIN final_degradation_rate :
          /\ e \notin DOMAIN degradation_rates
          /\ final_degradation_rate[e] >= DefaultDegradationRate * 10000
          /\ Degraded(e) >= 1

-----------------------------------------------------------------------------
(* VirusBuilder: the gene database *)

\* effects of a gene
AddTransition(rule) == [type |-> "add_transition", rule |-> rule]
AddProduction(rule) == [type |-> "add_production", rule |-> rule]
ModifyTransition(rule_name, modification) ==
    [type |-> "modify_transition", rule_name |-> rule_name,
     modification |-> modification]

\* a rule as the effect editor stores it when interferon is not enabled:
\* without the key interferon_amount
WithoutInterferon(rule) == Del(rule, "interferon_amount")

\* the rules of the genes.  Two genes define a rule named "uncoat"; one
\* rule has an explicit interferon_amount of 0, two have none.
UncoatRule ==
    Rule("uncoat", << In("virion", 1, TRUE) >>, << Out("rna", 2) >>,
         40, "per_entity", 50)
UncoatVariantRule ==
    Rule("uncoat", << In("virion", 1, TRUE) >>, << Out("provirus", 1) >>,
         20, "per_entity", 0)
ReplicateRule ==
    WithoutInterferon(
        Rule("replicate", << In("rna", 1, FALSE) >>, << Out("protein", 1) >>,
             100, "per_entity", 0))
ExportRule ==
    Rule("export", << In("protein", 2, TRUE), In("rna", 1, TRUE) >>,
         << Out("virion", 1) >>, 50, "per_pair", 100)

\* database["genes"].  Multipliers are in hundredths (2.0 is 200); they
\* are chosen so that every product of a probability and the multipliers
\* that can reach it is a whole number of hundredths, and no product of
\* an interferon amount and a multiplier lies halfway between two.
\* "capsid" and "late" are legacy entries without requires and
\* is_polymerase.
GeneDatabase ==
    [n \in {"capsid", "polymerase", "polymerase2", "enhancer", "late",
            "suppressor"} |->
        CASE n = "capsid" ->
               [name |-> n, cost |-> 120,
                effects |-> << AddTransition(UncoatRule) >>]
          [] n = "polymerase" ->
               [name |-> n, cost |-> 60, requires |-> << "capsid" >>,
                is_polymerase |-> TRUE,
                effects |-> << AddProduction(ReplicateRule),
                               ModifyTransition("uncoat",
                                   [probability_multiplier |-> 200,
                                    interferon_multiplier |-> 150]) >>]
          [] n = "polymerase2" ->
               [name |-> n, cost |-> 60, requires |-> << >>,
                is_polymerase |-> TRUE,
                effects |-> << AddTransition(UncoatVariantRule) >>]
          [] n = "enhancer" ->
               [name |-> n, cost |-> 30, requires |-> << "polymerase" >>,
                is_polymerase |-> FALSE,
                effects |-> << ModifyTransition("uncoat",
                                   [probability_multiplier |-> 300]),
                               ModifyTransition("replicate",
                                   [interferon_multiplier |-> 200]),
                               ModifyTransition("ghost",
                                   [probability_multiplier |-> 50]) >>]
          [] n = "late" ->
               [name |-> n, cost |-> 100,
                effects |-> << ModifyTransition("export",
                                   [probability_multiplier |-> 50,
                                    interferon_multiplier |-> 0]),
                               AddTransition(ExportRule) >>]
          [] n = "suppressor" ->
               [name |-> n, cost |-> 10, requires |-> << >>,
                is_polymerase |-> FALSE,
                effects |-> << ModifyTransition("export",
                                   [interferon_multiplier |-> 50]),
                               ModifyTransition("uncoat",
                                   [probability_multiplier |-> 50,
                                    interferon_multiplier |-> 200]) >>]]

\* the names add_gene, can_add_gene and remove_gene are called with
GeneNames == DOMAIN GeneDatabase \cup {"unknown"}

\* database["entities"]: "rna" has no base_degradation_rate, "provirus"
\* is not defined
EntityLookup ==
    [e \in {"virion", "rna", "protein"} |->
        IF e = "virion"
        THEN [name |-> e, entity_class |-> "virion",
              base_degradation_rate |-> 10]
        ELSE IF e = "rna" THEN [name |-> e, entity_class |-> "RNA"]
        ELSE [name |-> e, entity_class |-> "protein",
              base_degradation_rate |-> 0]]

\* base_entities[0]
LegacyStarter == "unenveloped virion (extracellular)"

\* the game state: the selected starter entity and the starting count
GameStates ==
    { [selected_starter_entity |-> "virion", starting_entity_count |-> c] :
        c \in {DefaultStartingCount, DefaultStartingCount + MaxStart} }

-----------------------------------------------------------------------------
(* VirusBuilder: selecting genes *)

\* GeneDatabaseManager.get_gene: the gene, given the is_polymerase field
\* when it has none
WithPolymeraseField(gene_data) ==
    IF "is_polymerase" \in DOMAIN gene_data THEN gene_data
    ELSE [k \in DOMAIN gene_data \cup {"is_polymerase"} |->
             IF k = "is_polymerase" THEN FALSE ELSE gene_data[k]]

\* GeneDatabase.get_gene: None without database manager or gene
get_gene(genes, loaded, gene_name) ==
    IF ~loaded \/ gene_name \notin DOMAIN genes THEN NoneValue
    ELSE WithPolymeraseField(genes[gene_name])

\* database["genes"] after get_gene, which stores the field it adds
GenesAfterGet(genes, loaded, gene_name) ==
    IF ~loaded \/ gene_name \notin DOMAIN genes THEN genes
    ELSE [genes EXCEPT ![gene_name] = WithPolymeraseField(@)]

can_afford_gene(genes, loaded, spent_, budget_, gene_name) ==
    LET gene == get_gene(genes, loaded, gene_name)
    IN  gene # NoneValue /\ spent_ + gene.cost <= budget_

\* [g["name"] for g in self.selected_genes]
selected_names(selected) == { selected[i].name : i \in 1..Len(selected) }

_has_polymerase_gene(selected) ==
    \E i \in 1..Len(selected) : Get(selected[i], "is_polymerase", FALSE)

\* gene.get("requires", []) is contained in the selected names
HasPrerequisites(gene, selected) ==
    \A k \in 1..Len(Get(gene, "requires", << >>)) :
        gene.requires[k] \in selected_names(selected)

\* mutant: the preview does not look at the polymerase limit
CanAddGeneNoLimit(genes, loaded, selected, spent_, budget_, gene_name) ==
    LET gene == get_gene(genes, loaded, gene_name)
    IN  IF gene = NoneValue
        THEN [ok |-> FALSE, reason |-> "unknown_gene"]
        ELSE IF ~can_afford_gene(genes, loaded, spent_, budget_, gene_name)
        THEN [ok |-> FALSE, reason |-> "builder_budget"]
        ELSE IF \E i \in 1..Len(selected) : selected[i].name = gene_name
        THEN [ok |-> FALSE, reason |-> "already_installed"]
        ELSE IF ~HasPrerequisites(gene, selected)
        THEN [ok |-> FALSE, reason |-> "missing_prerequisites"]
        ELSE [ok |-> TRUE, reason |-> ""]

\* can_add_gene: the pair (ok, reason) it returns
CanAddGeneResult(genes, loaded, selected, spent_, budget_, gene_name) ==
    LET gene == get_gene(genes, loaded, gene_name)
    IN  IF gene = NoneValue
        THEN [ok |-> FALSE, reason |-> "unknown_gene"]
        ELSE IF ~can_afford_gene(genes, loaded, spent_, budget_, gene_name)
        THEN [ok |-> FALSE, reason |-> "builder_budget"]
        ELSE IF \E i \in 1..Len(selected) : selected[i].name = gene_name
        THEN [ok |-> FALSE, reason |-> "already_installed"]
        ELSE IF ~HasPrerequisites(gene, selected)
        THEN [ok |-> FALSE, reason |-> "missing_prerequisites"]
        ELSE IF Get(gene, "is_polymerase", FALSE)
                  /\ _has_polymerase_gene(selected)
        THEN [ok |-> FALSE, reason |-> "polymerase_limit"]
        ELSE [ok |-> TRUE, reason |-> ""]

\* add_gene: the value it returns, with the selected genes and spent it
\* leaves
AddGeneResult(genes, loaded, selected, spent_, budget_, gene_name) ==
    LET gene == get_gene(genes, loaded, gene_name)
        refused == [ok |-> FALSE, selected_genes |-> selected, spent |-> spent_]
    IN  IF gene = NoneValue THEN refused
        ELSE IF ~can_afford_gene(genes, loaded, spent_, budget_, gene_name)
        THEN refused
        ELSE IF \E i \in 1..Len(selected) : selected[i].name = gene_name
        THEN refused
        ELSE IF ~HasPrerequisites(gene, selected) THEN refused
        ELSE IF Get(gene, "is_polymerase", FALSE)
        THEN IF _has_polymerase_gene(selected) THEN refused
             ELSE [ok |-> TRUE, selected_genes |-> Append(selected, gene),
                   spent |-> spent_ + gene.cost]
        ELSE [ok |-> TRUE, selected_genes |-> Append(selected, gene),
              spent |-> spent_ + gene.cost]

\* mutant: no gene is found to depend on gene_name
DependentsNone(selected, gene_name) == << >>

\* remove_gene, first loop: the names of the selected genes that require
\* gene_name, in list order
Dependents(selected, gene_name) ==
    LET requiring(gene) ==
            \E k \in 1..Len(Get(gene, "requires", << >>)) :
                gene.requires[k] = gene_name
        F[i \in 0..Len(selected)] ==
            IF i = 0 THEN << >>
            ELSE IF requiring(selected[i])
                 THEN Append(F[i - 1], selected[i].name)
                 ELSE F[i - 1]
    IN  F[Len(selected)]

\* remove_gene, last loop: the first gene of that name is deleted and its
\* cost taken off spent
RemoveFirst(st, gene_name) ==
    LET found == { i \in 1..Len(st.selected_genes) :
                     st.selected_genes[i].name = gene_name }
    IN  IF found = {} THEN st
        ELSE LET i == CHOOSE x \in found : \A y \in found : x <= y
             IN  [selected_genes |->
                      SubSeq(st.selected_genes, 1, i - 1)
                        \o SubSeq(st.selected_genes, i + 1,
                                  Len(st.selected_genes)),
                  spent |-> st.spent - st.selected_genes[i].cost]

\* remove_gene: the selected genes and spent it leaves; the dependents
\* are removed first, each by a recursive call
RECURSIVE RemoveGeneResult(_, _)
RECURSIVE RemoveEach(_, _, _)
RemoveEach(st, to_remove, k) ==
    IF k > Len(to_remove) THEN st
    ELSE RemoveEach(RemoveGeneResult(st, to_remove[k]), to_remove, k + 1)

RemoveGeneResult(st, gene_name) ==
    RemoveFirst(RemoveEach(st, Dependents(st.selected_genes, gene_name), 1),
                gene_name)

-----------------------------------------------------------------------------
(* VirusBuilder: the calls *)

add_gene ==
    \E gene_name \in GeneNames :
        LET result == AddGeneResult(gene_database, db_loaded, selected_genes,
                                    spent, budget, gene_name)
        IN  /\ called' = [op |-> "add_gene", gene_name |-> gene_name]
            /\ gene_database' =
                  GenesAfterGet(gene_database, db_loaded, gene_name)
            /\ selected_genes' = result.selected_genes
            /\ spent' = result.spent
            /\ returned' = [ok |-> result.ok]
            /\ UNCHANGED << db_loaded, game_state, budget >>
            /\ UNCHANGED engine_vars

can_add_gene ==
    \E gene_name \in GeneNames :
        /\ called' = [op |-> "can_add_gene", gene_name |-> gene_name]
        /\ gene_database' = GenesAfterGet(gene_database, db_loaded, gene_name)
        /\ returned' = CanAddGeneResult(gene_database, db_loaded,
                                        selected_genes, spent, budget,
                                        gene_name)
        /\ UNCHANGED << db_loaded, game_state, budget, selected_genes, spent >>
        /\ UNCHANGED engine_vars

remove_gene ==
    \E gene_name \in GeneNames :
        LET result == RemoveGeneResult([selected_genes |-> selected_genes,
                                        spent |-> spent], gene_name)
        IN  /\ called' = [op |-> "remove_gene", gene_name |-> gene_name]
            /\ selected_genes' = result.selected_genes
            /\ spent' = result.spent
            /\ returned' = NoneValue
            /\ UNCHANGED << gene_database, db_loaded, game_state, budget >>
            /\ UNCHANGED engine_vars

-----------------------------------------------------------------------------
(* VirusBuilder: assembling the blueprint *)

get_starter_entity(state) ==
    IF state # NoneValue THEN state.selected_starter_entity
    ELSE LegacyStarter

\* the loops over self.selected_genes and gene["effects"]: the effects in
\* the order they are processed, each as (gene index, effect index)
RECURSIVE EffectsFrom(_, _, _)
EffectsFrom(genes, i, j) ==
    IF i > Len(genes) THEN << >>
    ELSE IF j > Len(genes[i].effects) THEN EffectsFrom(genes, i + 1, 1)
    ELSE << << i, j >> >> \o EffectsFrom(genes, i, j + 1)

\* mutant: the rules of all genes are added first, the modifications are
\* applied afterwards
EffectOrderAddsFirst(genes) ==
    LET order == EffectsFrom(genes, 1, 1)
        IsModify(x) == genes[x[1]].effects[x[2]].type = "modify_transition"
        IsAdd(x) == ~IsModify(x)
    IN  SelectSeq(order, IsAdd) \o SelectSeq(order, IsModify)

EffectOrder(genes) == EffectsFrom(genes, 1, 1)

\* mutant: the rule of the gene itself is appended
RuleNoCopy(rule) == [items |-> rule, same_object |-> TRUE]

\* effect["rule"].copy(): a new dict with the same keys and values (the
\* inputs and outputs lists stay shared; nothing writes into them)
RuleCopy(rule) == [items |-> rule, same_object |-> FALSE]

\* mutant: the entities of the outputs are left out
RuleEntitiesInputsOnly(rule) ==
    { rule.inputs[k].entity : k \in 1..Len(rule.inputs) }

\* the entities named by the inputs and outputs of a rule
RuleEntities(rule) ==
    { rule.inputs[k].entity : k \in 1..Len(rule.inputs) }
      \cup { rule.outputs[k].entity : k \in 1..Len(rule.outputs) }

\* round(float(amount), 2) of an amount of the copied rule: amounts are
\* counted in hundredths here, so the stored amount is kept
RoundedAmount(rule) ==
    IF "interferon_amount" \in DOMAIN rule
    THEN [rule EXCEPT !.interferon_amount = @]
    ELSE rule

\* an add_transition or add_production effect
AddRule(acc, g, e) ==
    LET copy == RuleCopy(acc.genes[g].effects[e].rule)
        rule == RoundedAmount(copy.items)
    IN  [transition_rules |-> Append(acc.transition_rules, rule),
         origin |-> Append(acc.origin,
                           [gene |-> g, effect |-> e,
                            same_object |-> copy.same_object]),
         available_entities |->
             acc.available_entities \cup RuleEntities(rule),
         genes |-> IF copy.same_object
                   THEN [acc.genes EXCEPT ![g].effects[e].rule = rule]
                   ELSE acc.genes]

\* mutant: the product is not capped
ProbabilityTimesUncapped(probability, multiplier) ==
    (probability * multiplier) \div 100

\* rule["probability"] *= multiplier, then min(1.0, .)
ProbabilityTimes(probability, multiplier) ==
    Min2(100, (probability * multiplier) \div 100)

\* the probability_multiplier part of a modification
ProbabilityModified(rule, modification) ==
    IF "probability_multiplier" \in DOMAIN modification
    THEN [rule EXCEPT !.probability =
             ProbabilityTimes(@, modification.probability_multiplier)]
    ELSE rule

\* mutant: the amount is multiplied whether it is positive or not
InterferonModifiedUnguarded(rule, modification) ==
    IF "interferon_multiplier" \in DOMAIN modification
    THEN LET current_interferon == Get(rule, "interferon_amount", 0)
         IN  { Put(rule, "interferon_amount", amount) :
                 amount \in RoundDiv(current_interferon
                             * modification.interferon_multiplier, 100) }
    ELSE {rule}

\* the interferon_multiplier part of a modification: the rules it can
\* leave (round(new_interferon, 2))
InterferonModified(rule, modification) ==
    IF "interferon_multiplier" \in DOMAIN modification
    THEN LET current_interferon == Get(rule, "interferon_amount", 0)
         IN  IF current_interferon > 0
             THEN { [rule EXCEPT !.interferon_amount = amount] :
                      amount \in RoundDiv(current_interferon
                                  * modification.interferon_multiplier, 100) }
             ELSE {rule}
    ELSE {rule}

\* a modify_transition effect, from rule idx of the accumulated list on:
\* every accumulated rule of that name is modified
RECURSIVE ModifyFrom(_, _, _, _)
ModifyFrom(acc, rule_name, modification, idx) ==
    IF idx > Len(acc.transition_rules) THEN {acc}
    ELSE IF acc.transition_rules[idx].name # rule_name
    THEN ModifyFrom(acc, rule_name, modification, idx + 1)
    ELSE UNION {
           ModifyFrom(
             [acc EXCEPT
                 !.transition_rules[idx] = rule,
                 !.genes = IF acc.origin[idx].same_object
                           THEN [@ EXCEPT ![acc.origin[idx].gene]
                                            .effects[acc.origin[idx].effect]
                                            .rule = rule]
                           ELSE @],
             rule_name, modification, idx + 1) :
             rule \in InterferonModified(
                         ProbabilityModified(acc.transition_rules[idx],
                                             modification),
                         modification) }

\* one effect
ApplyEffect(acc, g, e) ==
    LET effect == acc.genes[g].effects[e]
    IN  IF effect.type \in {"add_transition", "add_production"}
        THEN {AddRule(acc, g, e)}
        ELSE IF effect.type = "modify_transition"
        THEN ModifyFrom(acc, effect.rule_name,
                        Get(effect, "modification", EmptyDict), 1)
        ELSE {acc}

\* the effects from position k of the order on
RECURSIVE Accumulate(_, _, _)
Accumulate(acc, order, k) ==
    IF k > Len(order) THEN {acc}
    ELSE UNION { Accumulate(next, order, k + 1) :
                   next \in ApplyEffect(acc, order[k][1], order[k][2]) }

\* the rate stored for one entity
DegradationRateOf(loaded, entity_name) ==
    IF loaded
    THEN IF entity_name \in DOMAIN EntityLookup
         THEN Get(EntityLookup[entity_name], "base_degradation_rate",
                  DefaultDegradationRate)
         ELSE DefaultDegradationRate
    ELSE DefaultDegradationRate

\* mutant: an entity the lookup does not define gets no entry
EntityDegradationRatesDefinedOnly(loaded, available_entities) ==
    [e \in {x \in available_entities : loaded => x \in DOMAIN EntityLookup} |->
        DegradationRateOf(loaded, e)]

\* entity_degradation_rates
EntityDegradationRates(loaded, available_entities) ==
    [e \in available_entities |-> DegradationRateOf(loaded, e)]

\* get_virus_capabilities: the possible results, each with the selected
\* genes as the call leaves them
VirusCapabilities(selected, state, loaded) ==
    LET starter_entity_name == get_starter_entity(state)
        starting_count == IF state # NoneValue
                          THEN state.starting_entity_count
                          ELSE DefaultStartingCount
        start == [transition_rules |-> << >>, origin |-> << >>,
                  available_entities |-> {starter_entity_name},
                  genes |-> selected]
    IN  { [capabilities |->
              [starting_entities |->
                   [e \in {starter_entity_name} |-> starting_count],
               possible_entities |-> acc.available_entities,
               transition_rules |-> acc.transition_rules,
               genes |-> [i \in 1..Len(selected) |-> selected[i].name],
               entity_degradation_rates |->
                   EntityDegradationRates(loaded, acc.available_entities)],
           selected_genes |-> acc.genes] :
          acc \in Accumulate(start, EffectOrder(selected), 1) }

\* database["genes"] holds the very gene objects that are selected
GenesAfterAssembly(genes, selected) ==
    [n \in DOMAIN genes |->
        IF \E i \in 1..Len(selected) : selected[i].name = n
        THEN selected[CHOOSE i \in 1..Len(selected) : selected[i].name = n]
        ELSE genes[n]]

get_virus_capabilities ==
    \E result \in VirusCapabilities(selected_genes, game_state, db_loaded) :
        /\ called' = [op |-> "get_virus_capabilities"]
        /\ returned' = result.capabilities
        /\ selected_genes' = result.selected_genes
        /\ gene_database' =
              GenesAfterAssembly(gene_database, result.selected_genes)
        /\ UNCHANGED << db_loaded, game_state, budget, spent >>
        /\ UNCHANGED engine_vars

-----------------------------------------------------------------------------
(* VirusBuilder: the specification *)

\* no engine has been constructed
NoEngine ==
    /\ virus_blueprint = NoneValue
    /\ db_manager = NoneValue
    /\ entities = EmptyDict
    /\ transition_rules = << >>
    /\ degradation_rates = EmptyDict
    /\ turn_count = 0
    /\ console_log = << >>
    /\ interferon_level = 0
    /\ starting_entities = EmptyDict
    /\ working_entities = EmptyDict
    /\ changes = << >>
    /\ rule_states = << >>
    /\ rule_changes = << >>
    /\ max_applications = << >>
    /\ actual_applications = << >>
    /\ interferon_added = << >>
    /\ interferon_added_this_turn = 0
    /\ raised = FALSE
    /\ final_degradation_rate = EmptyDict
    /\ entities_shared = FALSE
    /\ engine2_entities = EmptyDict

\* VirusBuilder.__init__, with the budget the game modules set afterwards
BuilderInit ==
    /\ NoEngine
    /\ db_loaded \in BOOLEAN
    /\ gene_database = IF db_loaded THEN GeneDatabase ELSE EmptyDict
    /\ game_state \in GameStates \cup {NoneValue}
    /\ selected_genes = << >>
    /\ budget \in {Budget, BIG_BUDGET}
    /\ spent = 0
    /\ called = NoCall
    /\ returned = NoneValue

BuilderNext ==
    \/ add_gene
    \/ can_add_gene
    \/ remove_gene
    \/ get_virus_capabilities

BuilderSpec == BuilderInit /\ [][BuilderNext]_vars

-----------------------------------------------------------------------------
(* Quantities the builder's properties are stated with *)

\* the last call was get_virus_capabilities; returned is its blueprint
Assembled == called.op = "get_virus_capabilities"

\* the starter entity and the starting count the builder was given
Starter ==
    IF game_state = NoneValue THEN LegacyStarter
    ELSE game_state.selected_starter_entity
StartingCount ==
    IF game_state = NoneValue THEN DefaultStartingCount
    ELSE game_state.starting_entity_count

\* the entities named in an input or output of a rule of the list
NamedIn(rules) ==
    UNION { { rules[i].inputs[k].entity : k \in 1..Len(rules[i].inputs) }
              \cup { rules[i].outputs[k].entity :
                       k \in 1..Len(rules[i].outputs) } :
            i \in 1..Len(rules) }

-----------------------------------------------------------------------------
(* C21 *)

\* C21: the assembled blueprint's possible_entities is exactly the starter
\* entity plus every entity named in an input or output of a rule of the
\* final transition_rules list, and starting_entities has the single
\* entry starter -> starting count.
C21_PossibleEntities ==
    Assembled =>
        /\ returned.possible_entities
              = {Starter} \cup NamedIn(returned.transition_rules)
        /\ DOMAIN returned.starting_entities = {Starter}
        /\ returned.starting_entities[Starter] = StartingCount

\* a blueprint of several rules, with an entity that only an output names
\* and a starting count that is not the default
C21_Witness ==
    /\ Assembled
    /\ Len(returned.transition_rules) >= 2
    /\ \E e \in returned.possible_entities :
          /\ e # Starter
          /\ \A i \in 1..Len(returned.transition_rules) :
                \A k \in 1..Len(returned.transition_rules[i].inputs) :
                    returned.transition_rules[i].inputs[k].entity # e
    /\ returned.starting_entities[Starter] > DefaultStartingCount

-----------------------------------------------------------------------------
(* C22 *)

\* the entity is defined in the lookup with a base_degradation_rate
HasLookupRate(e) ==
    /\ db_loaded
    /\ e \in DOMAIN EntityLookup
    /\ "base_degradation_rate" \in DOMAIN EntityLookup[e]

\* C22: the assembled entity_degradation_rates table has exactly the
\* entities of possible_entities as keys; each value is the entity's
\* base_degradation_rate from the lookup when the lookup defines it, and
\* 0.05 otherwise; assembly does not fail on missing metadata: the call
\* has a result in every state.
C22_DegradationRateTable ==
    /\ ENABLED get_virus_capabilities
    /\ Assembled =>
          /\ DOMAIN returned.entity_degradation_rates
                = returned.possible_entities
          /\ \A e \in returned.possible_entities :
                returned.entity_degradation_rates[e] =
                    IF HasLookupRate(e)
                    THEN EntityLookup[e].base_degradation_rate
                    ELSE DefaultDegradationRate

\* a table with an entity the lookup does not define, one it defines
\* without a rate, and two it defines with rates other than the default
C22_Witness ==
    /\ Assembled
    /\ db_loaded
    /\ \E e \in returned.possible_entities : e \notin DOMAIN EntityLookup
    /\ \E e \in returned.possible_entities :
          e \in DOMAIN EntityLookup /\ ~HasLookupRate(e)
    /\ \E e \in returned.possible_entities :
          HasLookupRate(e) /\ returned.entity_degradation_rates[e] = 0
    /\ \E e \in returned.possible_entities :
          HasLookupRate(e)
            /\ returned.entity_degradation_rates[e] > DefaultDegradationRate

-----------------------------------------------------------------------------
(* C23 *)

\* the effects of the selected genes, as (gene index, effect index)
Effects ==
    UNION { { << g, e >> : e \in 1..Len(selected_genes[g].effects) } :
              g \in 1..Len(selected_genes) }

EffectAt(x) == selected_genes[x[1]].effects[x[2]]

\* module order, then list order within a module
Earlier(x, y) == x[1] < y[1] \/ (x[1] = y[1] /\ x[2] < y[2])

AddEffects ==
    { x \in Effects :
        EffectAt(x).type \in {"add_transition", "add_production"} }

\* the modify effects that name the rule added by effect x
ModifiersOf(x) ==
    { y \in Effects :
        /\ EffectAt(y).type = "modify_transition"
        /\ EffectAt(y).rule_name = EffectAt(x).rule.name }

\* the effect that added the i-th rule of the assembled list
AddedBy(i) ==
    CHOOSE x \in AddEffects :
        Cardinality({ y \in AddEffects : Earlier(y, x) }) = i - 1

\* C23: effects are applied in module order and then in list order: the
\* assembled rules are those of the add effects in that order, and a
\* modify effect changes only rules added earlier: a rule no modify effect
\* after it names is exactly as defined, whatever modify effects before it
\* name it.  A modify effect whose target matches no accumulated rule
\* changes nothing and raises no error.
C23_ModifySeesEarlierRulesOnly ==
    /\ ENABLED get_virus_capabilities
    /\ Assembled =>
          /\ Len(returned.transition_rules) = Cardinality(AddEffects)
          /\ \A i \in 1..Len(returned.transition_rules) :
                LET rule == returned.transition_rules[i]
                    defined == EffectAt(AddedBy(i)).rule
                IN  /\ rule.name = defined.name
                    /\ rule.inputs = defined.inputs
                    /\ rule.outputs = defined.outputs
                    /\ rule.rule_type = defined.rule_type
                    /\ (\A y \in ModifiersOf(AddedBy(i)) :
                            Earlier(y, AddedBy(i))) => rule = defined

\* one rule was modified by a later effect, another one was added after
\* the only effect that names it and is as defined, and one modify effect
\* names no rule at all
C23_Witness ==
    /\ Assembled
    /\ \E i \in 1..Len(returned.transition_rules) :
          /\ \E y \in ModifiersOf(AddedBy(i)) : Earlier(AddedBy(i), y)
          /\ returned.transition_rules[i].probability
                # EffectAt(AddedBy(i)).rule.probability
    /\ \E i \in 1..Len(returned.transition_rules) :
          /\ ModifiersOf(AddedBy(i)) # {}
          /\ \A y \in ModifiersOf(AddedBy(i)) : Earlier(y, AddedBy(i))
          /\ returned.transition_rules[i] = EffectAt(AddedBy(i)).rule
    /\ \E y \in Effects :
          /\ EffectAt(y).type = "modify_transition"
          /\ \A x \in AddEffects :
                EffectAt(x).rule.name # EffectAt(y).rule_name

-----------------------------------------------------------------------------
(* C24 *)

\* C24: when several accumulated rules share the target name, a modify
\* effect updates only the most recently added one: a rule that is not
\* the most recently added of its name at any modify effect that names it
\* (a later rule of that name was added before each of them) keeps the
\* probability and interferon_amount it was defined with.
C24_OnlyMostRecentRuleModified ==
    Assembled =>
        \A i \in 1..Len(returned.transition_rules) :
            (\E j \in (i + 1)..Len(returned.transition_rules) :
                /\ returned.transition_rules[j].name
                      = returned.transition_rules[i].name
                /\ \A y \in ModifiersOf(AddedBy(i)) :
                      Earlier(y, AddedBy(i)) \/ Earlier(AddedBy(j), y))
            => returned.transition_rules[i] = EffectAt(AddedBy(i)).rule

-----------------------------------------------------------------------------
(* C25 *)

\* the modify effects after the addition of the i-th rule that name it
\* and carry a probability_multiplier
ProbabilityModifiersOf(i) ==
    { y \in ModifiersOf(AddedBy(i)) :
        /\ Earlier(AddedBy(i), y)
        /\ "probability_multiplier" \in DOMAIN EffectAt(y).modification }

\* min(1.0, probability * multiplier) applied for each effect of ys, in
\* the order of the effects
RECURSIVE MultipliedInOrder(_, _)
MultipliedInOrder(probability, ys) ==
    IF ys = {} THEN probability
    ELSE LET y == CHOOSE x \in ys : \A z \in ys : x = z \/ Earlier(x, z)
             product == (probability
                           * EffectAt(y).modification.probability_multiplier)
                          \div 100
         IN  MultipliedInOrder(IF product > 100 THEN 100 ELSE product,
                               ys \ {y})

\* the product of the probability and the multipliers without any cap
RECURSIVE PlainProduct(_, _)
PlainProduct(probability, ys) ==
    IF ys = {} THEN probability
    ELSE LET y == CHOOSE x \in ys : \A z \in ys : x = z \/ Earlier(x, z)
         IN  PlainProduct((probability
                             * EffectAt(y).modification.probability_multiplier)
                            \div 100,
                          ys \ {y})

\* C25: a probability_multiplier sets the probability of a rule to
\* min(1.0, probability * multiplier); with probabilities defined in
\* [0, 1] and non-negative multipliers every rule of the assembled
\* blueprint has a probability in [0, 1].
C25_ProbabilityClamped ==
    Assembled =>
        \A i \in 1..Len(returned.transition_rules) :
            /\ returned.transition_rules[i].probability >= 0
            /\ returned.transition_rules[i].probability <= 100
            /\ returned.transition_rules[i].probability =
                  MultipliedInOrder(EffectAt(AddedBy(i)).rule.probability,
                                    ProbabilityModifiersOf(i))

\* a rule whose multipliers take the product above 1.0 and whose
\* probability is 1.0
C25_Witness ==
    /\ Assembled
    /\ \E i \in 1..Len(returned.transition_rules) :
          /\ PlainProduct(EffectAt(AddedBy(i)).rule.probability,
                          ProbabilityModifiersOf(i)) > 100
          /\ returned.transition_rules[i].probability = 100

-----------------------------------------------------------------------------
(* C26 *)

\* the modify effects after the addition of the i-th rule that name it
\* and carry an interferon_multiplier
InterferonModifiersOf(i) ==
    { y \in ModifiersOf(AddedBy(i)) :
        /\ Earlier(AddedBy(i), y)
        /\ "interferon_multiplier" \in DOMAIN EffectAt(y).modification }

\* C26: an interferon_multiplier changes the interferon_amount of a rule
\* only when the amount is positive: a rule defined without the amount
\* is assembled without it, a rule defined with the amount 0 keeps 0,
\* and a rule of the assembled blueprint generates interferon only if
\* its definition does.
C26_NoInterferonFromMultiplier ==
    Assembled =>
        \A i \in 1..Len(returned.transition_rules) :
            LET defined == EffectAt(AddedBy(i)).rule
                rule == returned.transition_rules[i]
            IN  /\ "interferon_amount" \notin DOMAIN defined
                      => "interferon_amount" \notin DOMAIN rule
                /\ ("interferon_amount" \in DOMAIN defined
                       /\ defined.interferon_amount = 0)
                      => ("interferon_amount" \in DOMAIN rule
                            /\ rule.interferon_amount = 0)
                /\ Get(rule, "interferon_amount", 0) > 0
                      => Get(defined, "interferon_amount", 0) > 0

\* a rule defined without the amount that a later effect with a positive
\* interferon_multiplier names
C26_Witness ==
    /\ Assembled
    /\ \E i \in 1..Len(returned.transition_rules) :
          /\ "interferon_amount"
                \notin DOMAIN EffectAt(AddedBy(i)).rule
          /\ \E y \in InterferonModifiersOf(i) :
                EffectAt(y).modification.interferon_multiplier > 0

-----------------------------------------------------------------------------
(* C27 *)

\* C27: get_virus_capabilities leaves the rules of the selected genes
\* and of the gene database as they were, and a second assembly right
\* after the first returns the same transition_rules.
C27_AssemblyKeepsDefinitions ==
    [][called'.op = "get_virus_capabilities" =>
          /\ selected_genes' = selected_genes
          /\ gene_database' = gene_database
          /\ Assembled =>
                returned'.transition_rules = returned.transition_rules]_vars

\* an assembly in which a modify effect has changed the probability or
\* the interferon_amount of a rule, the gene still holding the original
C27_Witness ==
    /\ Assembled
    /\ \E i \in 1..Len(returned.transition_rules) :
          LET defined == EffectAt(AddedBy(i)).rule
              rule == returned.transition_rules[i]
          IN  /\ rule.probability # defined.probability
              /\ "interferon_amount" \in DOMAIN defined
              /\ rule.interferon_amount # defined.interferon_amount
              /\ rule.inputs = defined.inputs
              /\ rule.outputs = defined.outputs

-----------------------------------------------------------------------------
(* C28 *)

\* C28: a rule with an empty input list has max_applications 0 and emits
\* nothing, and once the population is empty after a turn no rule of the
\* next turn can be applied, no Change Record is made and the population
\* is empty after that turn too.
C28_ExtinctionIsAbsorbing ==
    /\ [](\A i \in Processed :
            transition_rules[i].inputs = << >> =>
                /\ max_applications[i] = 0
                /\ actual_applications[i] = 0
                /\ rule_changes[i] = << >>)
    /\ [][(turn_count > 0 /\ entities = EmptyDict) =>
             /\ \A i \in 1..Len(transition_rules) :
                   /\ max_applications'[i] = 0
                   /\ actual_applications'[i] = 0
             /\ changes' = << >>
             /\ entities' = EmptyDict]_vars

\* two turns and more after the extinction of a population whose rule
\* list holds a rule without inputs
C28_Witness ==
    /\ turn_count >= 3
    /\ ~raised
    /\ entities = EmptyDict
    /\ starting_entities = EmptyDict
    /\ \E i \in Processed : transition_rules[i].inputs = << >>
    /\ Len(max_applications) = Len(transition_rules)

-----------------------------------------------------------------------------
(* C29 *)

Selected == 1..Len(selected_genes)

Requires(gene) ==
    { Get(gene, "requires", << >>)[k] :
        k \in 1..Len(Get(gene, "requires", << >>)) }

RECURSIVE CostOf(_)
CostOf(genes) ==
    IF genes = << >> THEN 0 ELSE Head(genes).cost + CostOf(Tail(genes))

\* the names and the names of the selected genes that require, directly or
\* through other selected genes, one of them
RECURSIVE RequiringClosure(_)
RequiringClosure(names) ==
    LET more == names \cup { selected_genes[i].name : i \in
                               { j \in Selected :
                                   Requires(selected_genes[j]) \cap names
                                     # {} } }
    IN  IF more = names THEN names ELSE RequiringClosure(more)

KeptAfterRemoving(gene) == gene.name \notin RequiringClosure({called'.gene_name})

\* C29: after any sequence of add_gene and remove_gene calls no gene is
\* selected twice, at most one selected gene is a polymerase gene, every
\* prerequisite of a selected gene is selected, and spent is the sum of
\* the costs of the selected genes; remove_gene takes out the gene and
\* every selected gene that requires it directly or transitively, and
\* nothing else.
C29_SelectionInvariant ==
    /\ [](/\ \A i, j \in Selected :
                selected_genes[i].name = selected_genes[j].name => i = j
          /\ \A i, j \in Selected :
                (/\ Get(selected_genes[i], "is_polymerase", FALSE)
                 /\ Get(selected_genes[j], "is_polymerase", FALSE)) => i = j
          /\ \A i \in Selected :
                \A req \in Requires(selected_genes[i]) :
                    \E j \in Selected : selected_genes[j].name = req
          /\ spent = CostOf(selected_genes))
    /\ [][called'.op = "remove_gene" =>
             selected_genes' = SelectSeq(selected_genes, KeptAfterRemoving)]_vars

\* remove_gene has been called for a gene other genes of the database
\* require, and some genes are still selected, none of them requiring it
C29_Witness ==
    /\ called.op = "remove_gene"
    /\ \E n \in DOMAIN GeneDatabase :
          called.gene_name \in Requires(GeneDatabase[n])
    /\ \A i \in Selected :
          /\ selected_genes[i].name # called.gene_name
          /\ called.gene_name \notin Requires(selected_genes[i])
    /\ Len(selected_genes) >= 2
    /\ spent = CostOf(selected_genes)
    /\ spent > 0

-----------------------------------------------------------------------------
(* C30 *)

\* what add_gene would return in the current state
AddGeneWouldReturn(gene_name) ==
    AddGeneResult(gene_database, db_loaded, selected_genes, spent, budget,
                  gene_name).ok

\* what can_add_gene would return in the current state
CanAddGeneWouldReturn(gene_name) ==
    CanAddGeneResult(gene_database, db_loaded, selected_genes, spent, budget,
                     gene_name).ok

\* C30: in every builder state and for every gene name can_add_gene
\* returns ok = true exactly when add_gene called in that state would
\* return True, and a can_add_gene call changes neither the selected
\* genes nor spent.
C30_PreviewAgreesWithAddGene ==
    /\ [](\A gene_name \in GeneNames :
            CanAddGeneWouldReturn(gene_name) <=> AddGeneWouldReturn(gene_name))
    /\ [][called'.op = "can_add_gene" =>
             /\ returned'.ok <=> AddGeneWouldReturn(called'.gene_name)
             /\ selected_genes' = selected_genes
             /\ spent' = spent]_vars
    /\ [][called'.op = "add_gene" =>
             /\ returned'.ok <=> CanAddGeneWouldReturn(called'.gene_name)
             /\ returned'.ok <=> selected_genes' # selected_genes]_vars

\* the preview refused a second polymerase gene that the budget and the
\* prerequisites allow, and accepts another gene in the same state
C30_Witness ==
    /\ called.op = "can_add_gene"
    /\ returned = [ok |-> FALSE, reason |-> "polymerase_limit"]
    /\ ~AddGeneWouldReturn(called.gene_name)
    /\ \E gene_name \in GeneNames : AddGeneWouldReturn(gene_name)

=============================================================================
